---- MODULE Spec2Model ----
(***************************************************************************)
(* Control4 matrix amplifier driver: the UDP transport client              *)
(* (matrix_amp.py, class Control4MatrixAmp) and the per-output media       *)
(* player entities (media_player.py, class Control4MatrixAmpMediaPlayer)   *)
(* that share one client.                                                  *)
(*                                                                         *)
(* The entities' coroutines run on one asyncio event loop: a coroutine     *)
(* runs without interruption until it awaits something that is not ready   *)
(* (the lock, the reply).  `running` is the coroutine that holds the loop; *)
(* every step below is a step of that coroutine, and the loop picks the    *)
(* next coroutine only when `running` is 0.                                *)
(*                                                                         *)
(* Text is a sequence of one-character strings, so that formatting and     *)
(* parsing are computed character by character.                            *)
(***************************************************************************)
EXTENDS Integers, Sequences, FiniteSets, TLC

\* ------------------------------------------------------------------ bounds

\* Number of outputs configured for the device (CONF_NUM_OUTPUTS, 1..16).
NumOutputs == 2

\* Number of coroutines the host may have in progress at once.
NumTasks == 2

\* ------------------------------------------------- configuration, constants

\* const.py: DEFAULT_NUM_INPUTS
DEFAULT_NUM_INPUTS == 6

\* config_flow.py: vol.Range(min=1, max=16) of CONF_NUM_INPUTS
MAX_NUM_INPUTS == 16

\* matrix_amp.py: VOLUME_OFFSET
VOLUME_OFFSET == 160

\* matrix_amp.py: COUNTER_PREFIX = "0s2a"
COUNTER_PREFIX == <<"0", "s", "2", "a">>

\* matrix_amp.py: COMMAND_TERMINATOR = " \r\n"
COMMAND_TERMINATOR == <<" ", "\r", "\n">>

\* Optional values: None is the empty tuple, a present value x is <<x>>.
None == <<>>
Some(x) == <<x>>

\* No exception pending.
NoExc == "none"

Zones == 1..NumOutputs
Tasks == 1..NumTasks

\* Numbers of inputs the configuration entry may hold (the form allows 1 to
\* MAX_NUM_INPUTS): the least, the default when none is given, the greatest.
ConfiguredInputs == {1, DEFAULT_NUM_INPUTS, MAX_NUM_INPUTS}

\* ------------------------------------------------------------------- text

HexDigits ==
    <<"0", "1", "2", "3", "4", "5", "6", "7", "8", "9", "a", "b", "c", "d", "e", "f">>

\* The characters for which str.isdecimal() holds, which int() reads as
\* digits: the ASCII digits and the digits of the other scripts, each script
\* a run of ten characters for 0 to 9.  Characters outside ASCII are named by
\* their code point.
DigitBlocks ==
    <<
      <<"0", "1", "2", "3", "4",
        "5", "6", "7", "8", "9">>,
      <<"<U+0660>", "<U+0661>", "<U+0662>", "<U+0663>", "<U+0664>",
        "<U+0665>", "<U+0666>", "<U+0667>", "<U+0668>", "<U+0669>">>,
      <<"<U+06F0>", "<U+06F1>", "<U+06F2>", "<U+06F3>", "<U+06F4>",
        "<U+06F5>", "<U+06F6>", "<U+06F7>", "<U+06F8>", "<U+06F9>">>,
      <<"<U+07C0>", "<U+07C1>", "<U+07C2>", "<U+07C3>", "<U+07C4>",
        "<U+07C5>", "<U+07C6>", "<U+07C7>", "<U+07C8>", "<U+07C9>">>,
      <<"<U+0966>", "<U+0967>", "<U+0968>", "<U+0969>", "<U+096A>",
        "<U+096B>", "<U+096C>", "<U+096D>", "<U+096E>", "<U+096F>">>,
      <<"<U+09E6>", "<U+09E7>", "<U+09E8>", "<U+09E9>", "<U+09EA>",
        "<U+09EB>", "<U+09EC>", "<U+09ED>", "<U+09EE>", "<U+09EF>">>,
      <<"<U+0A66>", "<U+0A67>", "<U+0A68>", "<U+0A69>", "<U+0A6A>",
        "<U+0A6B>", "<U+0A6C>", "<U+0A6D>", "<U+0A6E>", "<U+0A6F>">>,
      <<"<U+0AE6>", "<U+0AE7>", "<U+0AE8>", "<U+0AE9>", "<U+0AEA>",
        "<U+0AEB>", "<U+0AEC>", "<U+0AED>", "<U+0AEE>", "<U+0AEF>">>,
      <<"<U+0B66>", "<U+0B67>", "<U+0B68>", "<U+0B69>", "<U+0B6A>",
        "<U+0B6B>", "<U+0B6C>", "<U+0B6D>", "<U+0B6E>", "<U+0B6F>">>,
      <<"<U+0BE6>", "<U+0BE7>", "<U+0BE8>", "<U+0BE9>", "<U+0BEA>",
        "<U+0BEB>", "<U+0BEC>", "<U+0BED>", "<U+0BEE>", "<U+0BEF>">>,
      <<"<U+0C66>", "<U+0C67>", "<U+0C68>", "<U+0C69>", "<U+0C6A>",
        "<U+0C6B>", "<U+0C6C>", "<U+0C6D>", "<U+0C6E>", "<U+0C6F>">>,
      <<"<U+0CE6>", "<U+0CE7>", "<U+0CE8>", "<U+0CE9>", "<U+0CEA>",
        "<U+0CEB>", "<U+0CEC>", "<U+0CED>", "<U+0CEE>", "<U+0CEF>">>,
      <<"<U+0D66>", "<U+0D67>", "<U+0D68>", "<U+0D69>", "<U+0D6A>",
        "<U+0D6B>", "<U+0D6C>", "<U+0D6D>", "<U+0D6E>", "<U+0D6F>">>,
      <<"<U+0DE6>", "<U+0DE7>", "<U+0DE8>", "<U+0DE9>", "<U+0DEA>",
        "<U+0DEB>", "<U+0DEC>", "<U+0DED>", "<U+0DEE>", "<U+0DEF>">>,
      <<"<U+0E50>", "<U+0E51>", "<U+0E52>", "<U+0E53>", "<U+0E54>",
        "<U+0E55>", "<U+0E56>", "<U+0E57>", "<U+0E58>", "<U+0E59>">>,
      <<"<U+0ED0>", "<U+0ED1>", "<U+0ED2>", "<U+0ED3>", "<U+0ED4>",
        "<U+0ED5>", "<U+0ED6>", "<U+0ED7>", "<U+0ED8>", "<U+0ED9>">>,
      <<"<U+0F20>", "<U+0F21>", "<U+0F22>", "<U+0F23>", "<U+0F24>",
        "<U+0F25>", "<U+0F26>", "<U+0F27>", "<U+0F28>", "<U+0F29>">>,
      <<"<U+1040>", "<U+1041>", "<U+1042>", "<U+1043>", "<U+1044>",
        "<U+1045>", "<U+1046>", "<U+1047>", "<U+1048>", "<U+1049>">>,
      <<"<U+1090>", "<U+1091>", "<U+1092>", "<U+1093>", "<U+1094>",
        "<U+1095>", "<U+1096>", "<U+1097>", "<U+1098>", "<U+1099>">>,
      <<"<U+17E0>", "<U+17E1>", "<U+17E2>", "<U+17E3>", "<U+17E4>",
        "<U+17E5>", "<U+17E6>", "<U+17E7>", "<U+17E8>", "<U+17E9>">>,
      <<"<U+1810>", "<U+1811>", "<U+1812>", "<U+1813>", "<U+1814>",
        "<U+1815>", "<U+1816>", "<U+1817>", "<U+1818>", "<U+1819>">>,
      <<"<U+1946>", "<U+1947>", "<U+1948>", "<U+1949>", "<U+194A>",
        "<U+194B>", "<U+194C>", "<U+194D>", "<U+194E>", "<U+194F>">>,
      <<"<U+19D0>", "<U+19D1>", "<U+19D2>", "<U+19D3>", "<U+19D4>",
        "<U+19D5>", "<U+19D6>", "<U+19D7>", "<U+19D8>", "<U+19D9>">>,
      <<"<U+1A80>", "<U+1A81>", "<U+1A82>", "<U+1A83>", "<U+1A84>",
        "<U+1A85>", "<U+1A86>", "<U+1A87>", "<U+1A88>", "<U+1A89>">>,
      <<"<U+1A90>", "<U+1A91>", "<U+1A92>", "<U+1A93>", "<U+1A94>",
        "<U+1A95>", "<U+1A96>", "<U+1A97>", "<U+1A98>", "<U+1A99>">>,
      <<"<U+1B50>", "<U+1B51>", "<U+1B52>", "<U+1B53>", "<U+1B54>",
        "<U+1B55>", "<U+1B56>", "<U+1B57>", "<U+1B58>", "<U+1B59>">>,
      <<"<U+1BB0>", "<U+1BB1>", "<U+1BB2>", "<U+1BB3>", "<U+1BB4>",
        "<U+1BB5>", "<U+1BB6>", "<U+1BB7>", "<U+1BB8>", "<U+1BB9>">>,
      <<"<U+1C40>", "<U+1C41>", "<U+1C42>", "<U+1C43>", "<U+1C44>",
        "<U+1C45>", "<U+1C46>", "<U+1C47>", "<U+1C48>", "<U+1C49>">>,
      <<"<U+1C50>", "<U+1C51>", "<U+1C52>", "<U+1C53>", "<U+1C54>",
        "<U+1C55>", "<U+1C56>", "<U+1C57>", "<U+1C58>", "<U+1C59>">>,
      <<"<U+A620>", "<U+A621>", "<U+A622>", "<U+A623>", "<U+A624>",
        "<U+A625>", "<U+A626>", "<U+A627>", "<U+A628>", "<U+A629>">>,
      <<"<U+A8D0>", "<U+A8D1>", "<U+A8D2>", "<U+A8D3>", "<U+A8D4>",
        "<U+A8D5>", "<U+A8D6>", "<U+A8D7>", "<U+A8D8>", "<U+A8D9>">>,
      <<"<U+A900>", "<U+A901>", "<U+A902>", "<U+A903>", "<U+A904>",
        "<U+A905>", "<U+A906>", "<U+A907>", "<U+A908>", "<U+A909>">>,
      <<"<U+A9D0>", "<U+A9D1>", "<U+A9D2>", "<U+A9D3>", "<U+A9D4>",
        "<U+A9D5>", "<U+A9D6>", "<U+A9D7>", "<U+A9D8>", "<U+A9D9>">>,
      <<"<U+A9F0>", "<U+A9F1>", "<U+A9F2>", "<U+A9F3>", "<U+A9F4>",
        "<U+A9F5>", "<U+A9F6>", "<U+A9F7>", "<U+A9F8>", "<U+A9F9>">>,
      <<"<U+AA50>", "<U+AA51>", "<U+AA52>", "<U+AA53>", "<U+AA54>",
        "<U+AA55>", "<U+AA56>", "<U+AA57>", "<U+AA58>", "<U+AA59>">>,
      <<"<U+ABF0>", "<U+ABF1>", "<U+ABF2>", "<U+ABF3>", "<U+ABF4>",
        "<U+ABF5>", "<U+ABF6>", "<U+ABF7>", "<U+ABF8>", "<U+ABF9>">>,
      <<"<U+FF10>", "<U+FF11>", "<U+FF12>", "<U+FF13>", "<U+FF14>",
        "<U+FF15>", "<U+FF16>", "<U+FF17>", "<U+FF18>", "<U+FF19>">>,
      <<"<U+104A0>", "<U+104A1>", "<U+104A2>", "<U+104A3>", "<U+104A4>",
        "<U+104A5>", "<U+104A6>", "<U+104A7>", "<U+104A8>", "<U+104A9>">>,
      <<"<U+10D30>", "<U+10D31>", "<U+10D32>", "<U+10D33>", "<U+10D34>",
        "<U+10D35>", "<U+10D36>", "<U+10D37>", "<U+10D38>", "<U+10D39>">>,
      <<"<U+11066>", "<U+11067>", "<U+11068>", "<U+11069>", "<U+1106A>",
        "<U+1106B>", "<U+1106C>", "<U+1106D>", "<U+1106E>", "<U+1106F>">>,
      <<"<U+110F0>", "<U+110F1>", "<U+110F2>", "<U+110F3>", "<U+110F4>",
        "<U+110F5>", "<U+110F6>", "<U+110F7>", "<U+110F8>", "<U+110F9>">>,
      <<"<U+11136>", "<U+11137>", "<U+11138>", "<U+11139>", "<U+1113A>",
        "<U+1113B>", "<U+1113C>", "<U+1113D>", "<U+1113E>", "<U+1113F>">>,
      <<"<U+111D0>", "<U+111D1>", "<U+111D2>", "<U+111D3>", "<U+111D4>",
        "<U+111D5>", "<U+111D6>", "<U+111D7>", "<U+111D8>", "<U+111D9>">>,
      <<"<U+112F0>", "<U+112F1>", "<U+112F2>", "<U+112F3>", "<U+112F4>",
        "<U+112F5>", "<U+112F6>", "<U+112F7>", "<U+112F8>", "<U+112F9>">>,
      <<"<U+11450>", "<U+11451>", "<U+11452>", "<U+11453>", "<U+11454>",
        "<U+11455>", "<U+11456>", "<U+11457>", "<U+11458>", "<U+11459>">>,
      <<"<U+114D0>", "<U+114D1>", "<U+114D2>", "<U+114D3>", "<U+114D4>",
        "<U+114D5>", "<U+114D6>", "<U+114D7>", "<U+114D8>", "<U+114D9>">>,
      <<"<U+11650>", "<U+11651>", "<U+11652>", "<U+11653>", "<U+11654>",
        "<U+11655>", "<U+11656>", "<U+11657>", "<U+11658>", "<U+11659>">>,
      <<"<U+116C0>", "<U+116C1>", "<U+116C2>", "<U+116C3>", "<U+116C4>",
        "<U+116C5>", "<U+116C6>", "<U+116C7>", "<U+116C8>", "<U+116C9>">>,
      <<"<U+11730>", "<U+11731>", "<U+11732>", "<U+11733>", "<U+11734>",
        "<U+11735>", "<U+11736>", "<U+11737>", "<U+11738>", "<U+11739>">>,
      <<"<U+118E0>", "<U+118E1>", "<U+118E2>", "<U+118E3>", "<U+118E4>",
        "<U+118E5>", "<U+118E6>", "<U+118E7>", "<U+118E8>", "<U+118E9>">>,
      <<"<U+11950>", "<U+11951>", "<U+11952>", "<U+11953>", "<U+11954>",
        "<U+11955>", "<U+11956>", "<U+11957>", "<U+11958>", "<U+11959>">>,
      <<"<U+11C50>", "<U+11C51>", "<U+11C52>", "<U+11C53>", "<U+11C54>",
        "<U+11C55>", "<U+11C56>", "<U+11C57>", "<U+11C58>", "<U+11C59>">>,
      <<"<U+11D50>", "<U+11D51>", "<U+11D52>", "<U+11D53>", "<U+11D54>",
        "<U+11D55>", "<U+11D56>", "<U+11D57>", "<U+11D58>", "<U+11D59>">>,
      <<"<U+11DA0>", "<U+11DA1>", "<U+11DA2>", "<U+11DA3>", "<U+11DA4>",
        "<U+11DA5>", "<U+11DA6>", "<U+11DA7>", "<U+11DA8>", "<U+11DA9>">>,
      <<"<U+16A60>", "<U+16A61>", "<U+16A62>", "<U+16A63>", "<U+16A64>",
        "<U+16A65>", "<U+16A66>", "<U+16A67>", "<U+16A68>", "<U+16A69>">>,
      <<"<U+16AC0>", "<U+16AC1>", "<U+16AC2>", "<U+16AC3>", "<U+16AC4>",
        "<U+16AC5>", "<U+16AC6>", "<U+16AC7>", "<U+16AC8>", "<U+16AC9>">>,
      <<"<U+16B50>", "<U+16B51>", "<U+16B52>", "<U+16B53>", "<U+16B54>",
        "<U+16B55>", "<U+16B56>", "<U+16B57>", "<U+16B58>", "<U+16B59>">>,
      <<"<U+1D7CE>", "<U+1D7CF>", "<U+1D7D0>", "<U+1D7D1>", "<U+1D7D2>",
        "<U+1D7D3>", "<U+1D7D4>", "<U+1D7D5>", "<U+1D7D6>", "<U+1D7D7>">>,
      <<"<U+1D7D8>", "<U+1D7D9>", "<U+1D7DA>", "<U+1D7DB>", "<U+1D7DC>",
        "<U+1D7DD>", "<U+1D7DE>", "<U+1D7DF>", "<U+1D7E0>", "<U+1D7E1>">>,
      <<"<U+1D7E2>", "<U+1D7E3>", "<U+1D7E4>", "<U+1D7E5>", "<U+1D7E6>",
        "<U+1D7E7>", "<U+1D7E8>", "<U+1D7E9>", "<U+1D7EA>", "<U+1D7EB>">>,
      <<"<U+1D7EC>", "<U+1D7ED>", "<U+1D7EE>", "<U+1D7EF>", "<U+1D7F0>",
        "<U+1D7F1>", "<U+1D7F2>", "<U+1D7F3>", "<U+1D7F4>", "<U+1D7F5>">>,
      <<"<U+1D7F6>", "<U+1D7F7>", "<U+1D7F8>", "<U+1D7F9>", "<U+1D7FA>",
        "<U+1D7FB>", "<U+1D7FC>", "<U+1D7FD>", "<U+1D7FE>", "<U+1D7FF>">>,
      <<"<U+1E140>", "<U+1E141>", "<U+1E142>", "<U+1E143>", "<U+1E144>",
        "<U+1E145>", "<U+1E146>", "<U+1E147>", "<U+1E148>", "<U+1E149>">>,
      <<"<U+1E2F0>", "<U+1E2F1>", "<U+1E2F2>", "<U+1E2F3>", "<U+1E2F4>",
        "<U+1E2F5>", "<U+1E2F6>", "<U+1E2F7>", "<U+1E2F8>", "<U+1E2F9>">>,
      <<"<U+1E950>", "<U+1E951>", "<U+1E952>", "<U+1E953>", "<U+1E954>",
        "<U+1E955>", "<U+1E956>", "<U+1E957>", "<U+1E958>", "<U+1E959>">>,
      <<"<U+1FBF0>", "<U+1FBF1>", "<U+1FBF2>", "<U+1FBF3>", "<U+1FBF4>",
        "<U+1FBF5>", "<U+1FBF6>", "<U+1FBF7>", "<U+1FBF8>", "<U+1FBF9>">>
    >>

DecimalChars ==
    {DigitBlocks[b][i] : b \in 1..Len(DigitBlocks), i \in 1..10}

\* The value of each decimal character.
DigitValueOf ==
    [c \in DecimalChars |->
       CHOOSE d \in 0..9 : \E b \in 1..Len(DigitBlocks) : DigitBlocks[b][d + 1] = c]

\* sys.int_info.default_max_str_digits: int() raises ValueError for a
\* literal of more digits.
IntMaxStrDigits == 4300

RECURSIVE Digits(_, _)
\* The digits of n >= 0 in the given base, most significant first.
Digits(n, base) ==
    IF n < base THEN <<HexDigits[n + 1]>>
    ELSE Digits(n \div base, base) \o <<HexDigits[(n % base) + 1]>>

\* str(n) for an integer n.
Str(n) == IF n < 0 THEN <<"-">> \o Digits(-n, 10) ELSE Digits(n, 10)

\* f"{n:02d}": decimal, zero-padded to width 2, the sign counted in the width.
Format02d(n) ==
    IF n < 0 THEN <<"-">> \o Digits(-n, 10)
    ELSE IF n < 10 THEN <<"0">> \o Digits(n, 10)
    ELSE Digits(n, 10)

\* f"{n:x}": lowercase hexadecimal, no prefix.
FormatX(n) == IF n < 0 THEN <<"-">> \o Digits(-n, 16) ELSE Digits(n, 16)

\* hex(n): "0x..." or "-0x...".
Hex(n) ==
    IF n < 0 THEN <<"-", "0", "x">> \o Digits(-n, 16)
    ELSE <<"0", "x">> \o Digits(n, 16)

\* s[2:]
DropTwo(s) == IF Len(s) <= 2 THEN <<>> ELSE SubSeq(s, 3, Len(s))

\* The characters for which str.isspace() holds, which str.strip() and
\* str.split() treat as whitespace.  Those that cannot be written in a string
\* of this module are named by their code point.
Whitespace ==
    { " ", "\t", "\n", "\r", "\f",
      "<U+000B>", "<U+001C>", "<U+001D>", "<U+001E>", "<U+001F>", "<U+0085>",
      "<U+00A0>", "<U+1680>", "<U+2000>", "<U+2001>", "<U+2002>", "<U+2003>",
      "<U+2004>", "<U+2005>", "<U+2006>", "<U+2007>", "<U+2008>", "<U+2009>",
      "<U+200A>", "<U+2028>", "<U+2029>", "<U+202F>", "<U+205F>", "<U+3000>" }

\* c.isspace()
IsSpace(c) == c \in Whitespace

RECURSIVE RStrip(_)
RStrip(s) ==
    IF s = <<>> THEN <<>>
    ELSE IF IsSpace(s[Len(s)]) THEN RStrip(SubSeq(s, 1, Len(s) - 1))
    ELSE s

RECURSIVE LStrip(_)
LStrip(s) ==
    IF s = <<>> THEN <<>>
    ELSE IF IsSpace(s[1]) THEN LStrip(Tail(s))
    ELSE s

\* s.strip()
Strip(s) == LStrip(RStrip(s))

RECURSIVE LastWord(_)
\* The trailing run of non-space characters of s (s has no trailing space).
LastWord(s) ==
    IF s = <<>> THEN <<>>
    ELSE IF IsSpace(s[Len(s)]) THEN <<>>
    ELSE LastWord(SubSeq(s, 1, Len(s) - 1)) \o <<s[Len(s)]>>

\* source.split()[-1]: the last whitespace-separated word, or IndexError
\* when the label holds no word.
SplitLast(source) ==
    LET t == RStrip(source)
    IN  IF t = <<>> THEN [raised |-> "IndexError", value |-> <<>>]
        ELSE [raised |-> NoExc, value |-> LastWord(t)]

DigitValue(c) == DigitValueOf[c]

RECURSIVE DecimalValue(_)
\* The value of a sequence of decimal digits.
DecimalValue(s) ==
    IF s = <<>> THEN 0
    ELSE 10 * DecimalValue(SubSeq(s, 1, Len(s) - 1)) + DigitValue(s[Len(s)])

\* The digit part of an integer literal int() accepts: at most
\* IntMaxStrDigits decimal digits, of any script, with single underscores
\* between them ("16", "007", "1_6"; not "", "_16", "16_", "1__6").
DecimalLiteral(s) ==
    /\ s # <<>>
    /\ Len(SelectSeq(s, LAMBDA c : c # "_")) <= IntMaxStrDigits
    /\ \A i \in 1..Len(s) : s[i] \in DecimalChars \cup {"_"}
    /\ s[1] # "_"
    /\ s[Len(s)] # "_"
    /\ \A i \in 1..(Len(s) - 1) : ~(s[i] = "_" /\ s[i + 1] = "_")

\* int(word) for a word without whitespace: an optional sign and a decimal
\* literal, whose underscores do not count; ValueError otherwise.  (The value
\* is an integer of the model checker: literals of up to nine digits.)
ParseInt(word) ==
    LET signed == word # <<>> /\ word[1] \in {"+", "-"}
        body   == IF signed THEN Tail(word) ELSE word
        digits == SelectSeq(body, LAMBDA c : c # "_")
    IN  IF DecimalLiteral(body)
        THEN [raised |-> NoExc,
              value  |-> IF signed /\ word[1] = "-" THEN -DecimalValue(digits)
                         ELSE DecimalValue(digits)]
        ELSE [raised |-> "ValueError", value |-> 0]

\* ------------------------------------------------------ float arithmetic

\* A natural number in binary: its bits, the most significant first, without
\* leading zeros (0 is the empty sequence).
RECURSIVE Bits(_)
Bits(n) == IF n = 0 THEN <<>> ELSE Append(Bits(n \div 2), n % 2)

\* The natural number written by a sequence of bits.
RECURSIVE BitsValue(_)
BitsValue(b) ==
    IF b = <<>> THEN 0 ELSE 2 * BitsValue(SubSeq(b, 1, Len(b) - 1)) + b[Len(b)]

\* The n bits of d < 2^n.
FixedBits(d, n) == [i \in 1..n |-> (d \div 2^(n - i)) % 2]

\* a + 1 on a natural number in binary.
Increment(a) ==
    IF \A i \in 1..Len(a) : a[i] = 1
    THEN <<1>> \o [i \in 1..Len(a) |-> 0]
    ELSE LET p == CHOOSE i \in 1..Len(a) :
                     a[i] = 0 /\ \A j \in (i + 1)..Len(a) : a[j] = 1
         IN  [i \in 1..Len(a) |-> IF i < p THEN a[i] ELSE IF i = p THEN 1 ELSE 0]

\* a * 2^n on a natural number in binary.
ShiftLeft(a, n) == IF a = <<>> THEN <<>> ELSE a \o [i \in 1..n |-> 0]

\* a * m + carry, for a in binary and natural numbers m > 0 and carry,
\* worked from the least significant end, 15 bits at a time.
RECURSIVE TimesBits(_, _, _)
TimesBits(a, m, carry) ==
    IF a = <<>>
    THEN Bits(carry)
    ELSE LET n == IF Len(a) < 15 THEN Len(a) ELSE 15
             p == BitsValue(SubSeq(a, Len(a) - n + 1, Len(a))) * m + carry
         IN  TimesBits(SubSeq(a, 1, Len(a) - n), m, p \div 2^n)
               \o FixedBits(p % 2^n, n)

\* Bits of precision of a Python float (IEEE 754 binary64).
MantissaBits == 53

\* A float: sign * mant * 2^exp, with mant a natural number of at most
\* MantissaBits bits, in binary.  Rounding bits * 2^exp to a float, to the
\* nearest and on a tie to the even one; sticky tells that the exact value
\* is above bits * 2^exp.
RoundFloat(sign, bits, exp, sticky) ==
    IF Len(bits) <= MantissaBits
    THEN [sign |-> sign, mant |-> bits, exp |-> exp]
    ELSE LET keep == SubSeq(bits, 1, MantissaBits)
             rest == SubSeq(bits, MantissaBits + 1, Len(bits))
             more == sticky \/ \E i \in 2..Len(rest) : rest[i] = 1
             up   == rest[1] = 1 /\ (more \/ keep[MantissaBits] = 1)
             mant == IF up THEN Increment(keep) ELSE keep
         IN  IF Len(mant) > MantissaBits
             THEN [sign |-> sign, mant |-> SubSeq(mant, 1, MantissaBits),
                   exp |-> exp + Len(rest) + 1]
             ELSE [sign |-> sign, mant |-> mant, exp |-> exp + Len(rest)]

\* Long division in binary, five bits at a time: (acc + r / den) * 2^exp
\* is the quotient, acc its bits produced so far and r < den the remainder;
\* bits are produced until there are more than a float keeps.
RECURSIVE Quotient(_, _, _, _)
Quotient(acc, r, den, exp) ==
    IF Len(acc) > MantissaBits
    THEN [bits |-> acc, rem |-> r, exp |-> exp]
    ELSE LET d == (32 * r) \div den
         IN  Quotient(IF acc = <<>> THEN Bits(d) ELSE acc \o FixedBits(d, 5),
                      (32 * r) % den, den, exp - 5)

\* The float num / den of Python, for integers num and den > 0: the
\* quotient correctly rounded.  This is also the float that the decimal
\* literal for num / den denotes (0.29 is 29 / 100).
Float(num, den) ==
    LET abs == IF num < 0 THEN -num ELSE num
        q   == Quotient(Bits(abs \div den), abs % den, den, 0)
    IN  IF num = 0
        THEN [sign |-> 1, mant |-> <<>>, exp |-> 0]
        ELSE RoundFloat(IF num < 0 THEN -1 ELSE 1, q.bits, q.exp, q.rem # 0)

\* x * m for a float x and a natural number m that a float holds exactly:
\* the exact product, rounded.
FloatTimes(x, m) ==
    RoundFloat(x.sign, IF m = 0 THEN <<>> ELSE TimesBits(x.mant, m, 0), x.exp, FALSE)

\* int(x) for a float x: the fraction is cut off.
IntOfFloat(x) ==
    x.sign * (IF x.exp >= 0
              THEN BitsValue(ShiftLeft(x.mant, x.exp))
              ELSE IF Len(x.mant) + x.exp <= 0
              THEN 0
              ELSE BitsValue(SubSeq(x.mant, 1, Len(x.mant) + x.exp)))

\* A quotient of integers written num/den: a volume passed by the host, or
\* the value of the volume_level property (self._volume / 100.0).  It stands
\* for the float Float(num, den).
Fraction(num, den) == [num |-> num, den |-> den]

\* int(volume * 100)
VolumeInt(volume) == IntOfFloat(FloatTimes(Float(volume.num, volume.den), 100))

\* ---------------------------------------------------------------- inputs

\* Text of a source label.
INPUT_ == <<"I", "n", "p", "u", "t", " ">>

\* Labels the host may pass to async_select_source: listed sources, sources
\* outside the configured or encodable range, the same with a form feed for
\* the space, with an Arabic-Indic digit and with an underscore between the
\* digits, and labels without a number.
Labels ==
    { INPUT_ \o <<"2">>, INPUT_ \o <<"1", "6">>,
      <<"I", "n", "p", "u", "t", "\f", "2">>, INPUT_ \o <<"<U+0662>">>,
      INPUT_ \o <<"1", "_", "6">>,
      <<"T", "V">>, <<>> }

\* Input numbers the host may pass to the select_source service: below every
\* range, within the default range, above it, and above every range.
InputNumbers == {0, 2, DEFAULT_NUM_INPUTS + 1, MAX_NUM_INPUTS + 1}

\* Volumes the host may pass to async_set_volume_level: the levels 0, 29, 50
\* and 100 as hundredths (0.0, 0.29, 0.5, 1.0), and 0.375 and 1.5.
Volumes ==
    { Fraction(0, 100), Fraction(29, 100), Fraction(50, 100), Fraction(100, 100),
      Fraction(3, 8), Fraction(3, 2) }

\* volume_int of each of these volumes.
VolumeInts == [volume \in Volumes |-> VolumeInt(volume)]

\* Arguments of direct calls of the client's methods: the configured outputs
\* and the one below them; inputs below, within and above 1..15.
CallOutputs == {0} \cup Zones
CallInputs == {0, 10, 16}
CallVolumes == {50}

\* Arguments within the documented ranges of the client's methods: outputs
\* 1-16, input sources 1-15, volume levels 0-100.
DeviceOutputs == 1..16
DeviceInputs == 1..15
VolumeLevels == 0..100

\* Counter suffixes drawn by random.randint(10, 99): the two ends.
CounterValues == {10, 99}

\* Datagrams the device may answer with: a text reply, the same ending in a
\* form feed, a blank line, bytes that are not UTF-8.
InvalidByte == "<ff>"
Replies ==
    { <<"o", "k", "\r", "\n">>, <<"o", "k", "\f", "\r", "\n">>, <<"\r", "\n">>,
      <<InvalidByte>> }

\* ----------------------------------------------------- command encoding

C4_AMP_OUT == <<"c", "4", ".", "a", "m", "p", ".", "o", "u", "t", " ">>
C4_AMP_CHVOL == <<"c", "4", ".", "a", "m", "p", ".", "c", "h", "v", "o", "l", " ">>

\* Mutant: the upper limit is the configuration form's 16, not 15.
ValidateUpTo16(input_source) == 1 <= input_source /\ input_source <= 16

\* Control4MatrixAmp._validate_input_source
_validate_input_source(input_source) == 1 <= input_source /\ input_source <= 15

\* Mutant: the input in hexadecimal without the leading 0.
RouteCommandUnpadded(output, input_source) ==
    C4_AMP_OUT \o Format02d(output) \o <<" ">> \o FormatX(input_source)

\* f"c4.amp.out {output:02d} 0{input_source:x}"
RouteCommand(output, input_source) ==
    C4_AMP_OUT \o Format02d(output) \o <<" ", "0">> \o FormatX(input_source)

\* f"c4.amp.out {output:02d} 00"
PowerOffCommand(output) == C4_AMP_OUT \o Format02d(output) \o <<" ", "0", "0">>

\* Mutant: the level in hexadecimal without the offset.
VolumeCommandNoOffset(output, volume) ==
    C4_AMP_CHVOL \o Format02d(output) \o <<" ">> \o DropTwo(Hex(volume))

\* f"c4.amp.chvol {output:02d} {hex(int(volume) + VOLUME_OFFSET)[2:]}"
VolumeCommand(output, volume) ==
    C4_AMP_CHVOL \o Format02d(output) \o <<" ">> \o DropTwo(Hex(volume + VOLUME_OFFSET))

\* counter + " " + command + COMMAND_TERMINATOR
FullCommand(n, command) ==
    COUNTER_PREFIX \o Str(n) \o <<" ">> \o command \o COMMAND_TERMINATOR

\* str(response_bytes, "utf-8").strip()
Decode(bytes) ==
    IF \E i \in 1..Len(bytes) : bytes[i] = InvalidByte
    THEN [raised |-> "UnicodeDecodeError", value |-> <<>>]
    ELSE [raised |-> NoExc, value |-> Strip(bytes)]

\* Mutant: except OSError, which lets a decoding error through.
CatchesOSErrorOnly(exc) == exc = "OSError"

\* except Exception: every exception the transport can raise is caught.
Catches(exc) == exc \in {"OSError", "UnicodeDecodeError"}

\* Python truth value of an optional integer (None and 0 are false).
Truthy(opt) == opt # None /\ opt[1] # 0

\* ------------------------------------------------------------------ state

VARIABLES
    _num_inputs,      \* the entities' number of inputs, from the configuration
    _state,           \* per output: MediaPlayerState, "off" or "on"
    _volume,          \* per output: tracked volume (integer)
    _current_source,  \* per output: tracked source, None or Some(input)
    _available,       \* per output: availability flag
    _locked,          \* asyncio.Lock: held
    _waiters,         \* asyncio.Lock: coroutines waiting, in arrival order
    task,             \* per coroutine: position and local variables
    wire,             \* the datagram sent and not yet answered or timed out
    running           \* the coroutine that holds the event loop, 0 when none

vars == <<_num_inputs, _state, _volume, _current_source, _available, _locked, _waiters, task, wire,
          running>>

entity == <<_num_inputs, _state, _volume, _current_source, _available>>
lock == <<_locked, _waiters>>

\* A coroutine slot with no call in progress.
IdleTask ==
    [ pc           |-> "idle",
      facade       |-> "none",    \* entity method in progress
      op           |-> "none",    \* client method in progress
      output       |-> 0,
      arg          |-> 0,         \* input_source / input_num / volume_int
      volume       |-> None,      \* volume passed to async_set_volume_level
      command      |-> <<>>,
      sock         |-> "none",    \* "none" | "open" | "closed"
      sent         |-> FALSE,     \* the datagram went out on sock
      response     |-> None,      \* value send_command returns
      exc          |-> NoExc,     \* exception propagating
      result       |-> None,      \* value the client method returns
      log          |-> "none" ]   \* last message the call logged

LoopIdle == running = 0

\* Entities as async_setup_entry constructs them, for any configured number
\* of inputs.
Init ==
    /\ _num_inputs \in ConfiguredInputs
    /\ _state = [z \in Zones |-> "off"]
    /\ _volume = [z \in Zones |-> 0]
    /\ _current_source = [z \in Zones |-> None]
    /\ _available = [z \in Zones |-> TRUE]
    /\ _locked = FALSE
    /\ _waiters = <<>>
    /\ task = [t \in Tasks |-> IdleTask]
    /\ wire = None
    /\ running = 0

\* The entities of a configuration entry without a number of inputs.
InitDefault == Init /\ _num_inputs = DEFAULT_NUM_INPUTS

\* The host may start a coroutine in slot t: the loop is idle and t is the
\* first free slot (the slots are interchangeable).
Free(t) ==
    /\ LoopIdle
    /\ task[t].pc = "idle"
    /\ \A u \in Tasks : u < t => task[u].pc # "idle"

\* The host starts a coroutine in slot t.
Start(t, facade, op, output, arg) ==
    /\ Free(t)
    /\ task' = [task EXCEPT ![t] =
                  [IdleTask EXCEPT !.pc = "call", !.facade = facade, !.op = op,
                                   !.output = output, !.arg = arg]]
    /\ running' = t

\* Replace fields of coroutine t's record.
Goto(t, pc) == task' = [task EXCEPT ![t].pc = pc]

\* ------------------------------------------- entity methods (media_player)

\* async_turn_on, up to the call of power_on_output.
async_turn_on(t, z) ==
    /\ Start(t, "async_turn_on", "power_on_output", z,
             IF Truthy(_current_source[z]) THEN _current_source[z][1] ELSE 1)
    /\ UNCHANGED <<entity, wire, lock>>

\* async_turn_off, up to the call of power_off_output.
async_turn_off(t, z) ==
    /\ Start(t, "async_turn_off", "power_off_output", z, 0)
    /\ UNCHANGED <<entity, wire, lock>>

\* async_set_volume_level, up to the call of set_output_volume.
async_set_volume_level(t, z, volume) ==
    /\ Free(t)
    /\ task' = [task EXCEPT ![t] =
                  [IdleTask EXCEPT !.pc = "call",
                                   !.facade = "async_set_volume_level",
                                   !.op = "set_output_volume",
                                   !.output = z, !.volume = Some(volume),
                                   !.arg = VolumeInts[volume]]]
    /\ running' = t
    /\ UNCHANGED <<entity, wire, lock>>

\* Mutant: async_select_source without its except clause, so that a label
\* without a number raises to the host.
async_select_source_uncaught(t, z, source) ==
    LET word == SplitLast(source)
        num  == IF word.raised = NoExc THEN ParseInt(word.value) ELSE word
    IN  /\ Free(t)
        /\ task' = [task EXCEPT ![t] =
                      IF num.raised = NoExc
                      THEN [IdleTask EXCEPT !.pc = "call",
                                            !.facade = "async_select_source",
                                            !.op = "set_output_source",
                                            !.output = z, !.arg = num.value]
                      ELSE [IdleTask EXCEPT !.pc = "raised",
                                            !.facade = "async_select_source",
                                            !.output = z,
                                            !.exc = num.raised]]
        /\ running' = 0
        /\ UNCHANGED <<entity, wire, lock>>

\* async_select_source, up to the call of set_output_source; a label without
\* a number is logged and the method returns.
async_select_source(t, z, source) ==
    LET word == SplitLast(source)
        num  == IF word.raised = NoExc THEN ParseInt(word.value) ELSE word
    IN  /\ Free(t)
        /\ task' = [task EXCEPT ![t] =
                      IF num.raised = NoExc
                      THEN [IdleTask EXCEPT !.pc = "call",
                                            !.facade = "async_select_source",
                                            !.op = "set_output_source",
                                            !.output = z, !.arg = num.value]
                      ELSE [IdleTask EXCEPT !.pc = "done",
                                            !.facade = "async_select_source",
                                            !.output = z,
                                            !.log = "Invalid source format"]]
        /\ running' = t
        /\ UNCHANGED <<entity, wire, lock>>

\* async_select_source_to_output, up to the call of set_output_source; a
\* number outside 1.._num_inputs is logged and the method returns.
async_select_source_to_output(t, z, input) ==
    /\ Free(t)
    /\ task' = [task EXCEPT ![t] =
                  IF 1 <= input /\ input <= _num_inputs
                  THEN [IdleTask EXCEPT !.pc = "call",
                                        !.facade = "async_select_source_to_output",
                                        !.op = "set_output_source",
                                        !.output = z, !.arg = input]
                  ELSE [IdleTask EXCEPT !.pc = "done",
                                        !.facade = "async_select_source_to_output",
                                        !.output = z, !.arg = input,
                                        !.log = "Invalid input number"]]
    /\ running' = t
    /\ UNCHANGED <<entity, wire, lock>>

\* async_update: sets the availability flag, awaits nothing.
async_update(t, z) ==
    /\ Free(t)
    /\ _available' = [_available EXCEPT ![z] = TRUE]
    /\ task' = [task EXCEPT ![t] =
                  [IdleTask EXCEPT !.pc = "done", !.facade = "async_update", !.output = z]]
    /\ running' = t
    /\ UNCHANGED <<_num_inputs, _state, _volume, _current_source, wire, lock>>

\* --------------------------------- direct calls of the client's methods

CallSetOutputSource(t, output, input_source) ==
    /\ Start(t, "none", "set_output_source", output, input_source)
    /\ UNCHANGED <<entity, wire, lock>>

CallPowerOnOutput(t, output, input_source) ==
    /\ Start(t, "none", "power_on_output", output, input_source)
    /\ UNCHANGED <<entity, wire, lock>>

CallSetOutputVolume(t, output, volume) ==
    /\ Start(t, "none", "set_output_volume", output, volume)
    /\ UNCHANGED <<entity, wire, lock>>

CallPowerOffOutput(t, output) ==
    /\ Start(t, "none", "power_off_output", output, 0)
    /\ UNCHANGED <<entity, wire, lock>>

\* ------------------------------------------ client methods (matrix_amp)

\* Entry of a routing method: validate the input, build the command.
RouteEntry(t, op) ==
    /\ running = t
    /\ task[t].pc = "call"
    /\ task[t].op = op
    /\ task' = [task EXCEPT ![t] =
                  IF _validate_input_source(task[t].arg)
                  THEN [@ EXCEPT !.pc = "send_command",
                                 !.command = RouteCommand(task[t].output, task[t].arg)]
                  ELSE [@ EXCEPT !.pc = "return",
                                 !.result = Some(FALSE),
                                 !.log = "Input source must be between 1 and 15"]]
    /\ UNCHANGED <<entity, wire, lock, running>>

\* set_output_source, up to the call of send_command.
set_output_source(t) == RouteEntry(t, "set_output_source")

\* power_on_output, up to the call of send_command.
power_on_output(t) == RouteEntry(t, "power_on_output")

\* set_output_volume, up to the call of send_command.
set_output_volume(t) ==
    /\ running = t
    /\ task[t].pc = "call"
    /\ task[t].op = "set_output_volume"
    /\ task' = [task EXCEPT ![t].pc = "send_command",
                            ![t].command = VolumeCommand(task[t].output, task[t].arg)]
    /\ UNCHANGED <<entity, wire, lock, running>>

\* power_off_output, up to the call of send_command.
power_off_output(t) ==
    /\ running = t
    /\ task[t].pc = "call"
    /\ task[t].op = "power_off_output"
    /\ task' = [task EXCEPT ![t].pc = "send_command",
                            ![t].command = PowerOffCommand(task[t].output)]
    /\ UNCHANGED <<entity, wire, lock, running>>

\* A query method: log that the protocol does not support it and return
\* None, which the host receives as Some(None).
Query(t, op, output) ==
    /\ Free(t)
    /\ task' = [task EXCEPT ![t] =
                  [IdleTask EXCEPT !.pc = "done", !.op = op, !.output = output,
                                   !.result = Some(None),
                                   !.log = "not supported by Control4 UDP protocol"]]
    /\ running' = t
    /\ UNCHANGED <<entity, wire, lock>>

get_output_source(t, output) == Query(t, "get_output_source", output)

get_output_volume(t, output) == Query(t, "get_output_volume", output)

\* Mutant: the power state is asked of the device.
get_output_state_asks(t, output) ==
    /\ Free(t)
    /\ task' = [task EXCEPT ![t] =
                  [IdleTask EXCEPT !.pc = "send_command", !.op = "get_output_state",
                                   !.output = output,
                                   !.command = C4_AMP_OUT \o Format02d(output)]]
    /\ running' = t
    /\ UNCHANGED <<entity, wire, lock>>

get_output_state(t, output) == Query(t, "get_output_state", output)

\* ------------------------------------------------------- send_command

\* Mutant: send_command without the lock.
NoLock == TRUE

\* asyncio.Lock.acquire takes the lock at once only when it is free and
\* nobody waits for it.
LockFree == ~_locked /\ _waiters = <<>>

\* async with self._lock: take the lock, or queue up and yield the loop.
Acquire(t) ==
    /\ running = t
    /\ task[t].pc = "send_command"
    /\ IF LockFree
       THEN /\ _locked' = TRUE
            /\ Goto(t, "locked")
            /\ UNCHANGED <<_waiters, running>>
       ELSE /\ _waiters' = Append(_waiters, t)
            /\ Goto(t, "waiting")
            /\ running' = 0
            /\ UNCHANGED _locked
    /\ UNCHANGED <<entity, wire>>

\* A waiter woken by release resumes and takes the lock.
Resume(t) ==
    /\ LoopIdle
    /\ task[t].pc = "woken"
    /\ _waiters' = SelectSeq(_waiters, LAMBDA w : w # t)
    /\ _locked' = TRUE
    /\ Goto(t, "locked")
    /\ running' = t
    /\ UNCHANGED <<entity, wire>>

\* Inside the lock: the command is logged; socket.socket(), setblocking: the
\* socket is created, or its creation raises.
CreateSocket(t) ==
    /\ running = t
    /\ task[t].pc = "locked"
    /\ \/ task' = [task EXCEPT ![t].pc = "sendto", ![t].sock = "open",
                               ![t].log = "Sending command"]
       \/ task' = [task EXCEPT ![t].pc = "exit", ![t].exc = "OSError",
                               ![t].log = "Sending command"]
    /\ UNCHANGED <<entity, wire, lock, running>>

\* await loop.sock_sendto(...): full_command (with the counter drawn for
\* it) goes out and the coroutine waits for the reply, or the send raises.
SendTo(t) ==
    /\ running = t
    /\ task[t].pc = "sendto"
    /\ \/ /\ task' = [task EXCEPT ![t].pc = "recv", ![t].sent = TRUE]
          /\ \E n \in CounterValues : wire' = Some(FullCommand(n, task[t].command))
          /\ running' = 0
       \/ /\ task' = [task EXCEPT ![t].pc = "exit", ![t].exc = "OSError"]
          /\ UNCHANGED <<wire, running>>
    /\ UNCHANGED <<entity, lock>>

\* A reply arrives within the timeout: decode and strip it.
RecvReply(t, bytes) ==
    /\ LoopIdle
    /\ task[t].pc = "recv"
    /\ LET d == Decode(bytes)
       IN  task' = [task EXCEPT ![t] =
                      IF d.raised = NoExc
                      THEN [@ EXCEPT !.pc = "exit", !.response = Some(d.value),
                                     !.log = "Command sent. Response"]
                      ELSE [@ EXCEPT !.pc = "exit", !.exc = d.raised]]
    /\ running' = t
    /\ wire' = None
    /\ UNCHANGED <<entity, lock>>

\* Mutant: sock_recv awaited without wait_for, so that no timeout ends it.
RecvWithoutTimeout(t) ==
    /\ FALSE
    /\ UNCHANGED vars

\* asyncio.TimeoutError after 2 seconds: return None.
RecvTimeout(t) ==
    /\ LoopIdle
    /\ task[t].pc = "recv"
    /\ task' = [task EXCEPT ![t].pc = "exit", ![t].response = None,
                            ![t].log = "No response received (timeout)"]
    /\ running' = t
    /\ wire' = None
    /\ UNCHANGED <<entity, lock>>

\* sock_recv raises (for example ConnectionRefusedError).
RecvError(t) ==
    /\ LoopIdle
    /\ task[t].pc = "recv"
    /\ task' = [task EXCEPT ![t].pc = "exit", ![t].exc = "OSError"]
    /\ running' = t
    /\ wire' = None
    /\ UNCHANGED <<entity, lock>>

\* Leaving the async with block: asyncio.Lock.release frees the lock and
\* wakes the first waiter.
Release(t) ==
    /\ running = t
    /\ task[t].pc = "exit"
    /\ _locked' = FALSE
    /\ task' = [u \in Tasks |->
                  IF u = t
                  THEN [task[t] EXCEPT !.pc = IF task[t].exc # NoExc THEN "except"
                                              ELSE "finally"]
                  ELSE IF _waiters # <<>> /\ u = _waiters[1] /\ task[u].pc = "waiting"
                  THEN [task[u] EXCEPT !.pc = "woken"]
                  ELSE task[u]]
    /\ UNCHANGED <<entity, wire, _waiters, running>>

\* except Exception as err: log the error and return None.
ExceptHandler(t) ==
    /\ running = t
    /\ task[t].pc = "except"
    /\ task' = [task EXCEPT ![t] =
                  IF Catches(task[t].exc)
                  THEN [@ EXCEPT !.pc = "finally", !.exc = NoExc, !.response = None,
                                 !.log = "Error sending command"]
                  ELSE [@ EXCEPT !.pc = "finally"]]
    /\ UNCHANGED <<entity, wire, lock, running>>

\* Mutant: send_command without its finally clause, so that the socket is
\* left open.
FinallyLeaks(t) ==
    /\ running = t
    /\ task[t].pc = "finally"
    /\ task' = [task EXCEPT ![t].pc = IF task[t].exc # NoExc THEN "raised"
                                      ELSE "returned"]
    /\ running' = IF task[t].exc # NoExc THEN 0 ELSE t
    /\ UNCHANGED <<entity, wire, lock>>

\* finally: close the socket if one was created; then send_command returns,
\* or an exception that was not caught leaves the coroutine.
Finally(t) ==
    /\ running = t
    /\ task[t].pc = "finally"
    /\ task' = [task EXCEPT ![t].sock = IF @ = "open" THEN "closed" ELSE @,
                            ![t].pc = IF task[t].exc # NoExc THEN "raised"
                                      ELSE "returned"]
    /\ running' = IF task[t].exc # NoExc THEN 0 ELSE t
    /\ UNCHANGED <<entity, wire, lock>>

\* return response is not None
MethodReturn(t) ==
    /\ running = t
    /\ task[t].pc = "returned"
    /\ task' = [task EXCEPT ![t].pc = "return",
                            ![t].result = Some(task[t].response # None)]
    /\ UNCHANGED <<entity, wire, lock, running>>

\* -------------------------------- entity methods, after the client call

\* async_turn_on after power_on_output.
turn_on_done(t) ==
    LET z == task[t].output
    IN  /\ running = t
        /\ task[t].pc = "return"
        /\ task[t].facade = "async_turn_on"
        /\ _state' = [_state EXCEPT ![z] = "on"]
        /\ _current_source' =
             IF ~Truthy(_current_source[z])
             THEN [_current_source EXCEPT ![z] = Some(task[t].arg)]
             ELSE _current_source
        /\ Goto(t, "done")
        /\ UNCHANGED <<_num_inputs, _volume, _available, wire, lock, running>>

\* Mutant: a command the client reports as failed marks the entity
\* unavailable.
turn_off_done_marks_unavailable(t) ==
    LET z == task[t].output
    IN  /\ running = t
        /\ task[t].pc = "return"
        /\ task[t].facade = "async_turn_off"
        /\ _state' = [_state EXCEPT ![z] = "off"]
        /\ _available' = [_available EXCEPT ![z] = task[t].result = Some(TRUE)]
        /\ Goto(t, "done")
        /\ UNCHANGED <<_num_inputs, _volume, _current_source, wire, lock, running>>

\* async_turn_off after power_off_output.
turn_off_done(t) ==
    LET z == task[t].output
    IN  /\ running = t
        /\ task[t].pc = "return"
        /\ task[t].facade = "async_turn_off"
        /\ _state' = [_state EXCEPT ![z] = "off"]
        /\ Goto(t, "done")
        /\ UNCHANGED <<_num_inputs, _volume, _current_source, _available, wire, lock, running>>

\* async_set_volume_level after set_output_volume.
set_volume_done(t) ==
    LET z == task[t].output
    IN  /\ running = t
        /\ task[t].pc = "return"
        /\ task[t].facade = "async_set_volume_level"
        /\ _volume' = [_volume EXCEPT ![z] = task[t].arg]
        /\ Goto(t, "done")
        /\ UNCHANGED <<_num_inputs, _state, _current_source, _available, wire, lock, running>>

\* Mutant: selecting a source also marks the zone on.
select_source_done_turns_on(t) ==
    LET z == task[t].output
    IN  /\ running = t
        /\ task[t].pc = "return"
        /\ task[t].facade \in {"async_select_source", "async_select_source_to_output"}
        /\ _current_source' = [_current_source EXCEPT ![z] = Some(task[t].arg)]
        /\ _state' = [_state EXCEPT ![z] = "on"]
        /\ Goto(t, "done")
        /\ UNCHANGED <<_num_inputs, _volume, _available, wire, lock, running>>

\* async_select_source / async_select_source_to_output after
\* set_output_source.
select_source_done(t) ==
    LET z == task[t].output
    IN  /\ running = t
        /\ task[t].pc = "return"
        /\ task[t].facade \in {"async_select_source", "async_select_source_to_output"}
        /\ _current_source' = [_current_source EXCEPT ![z] = Some(task[t].arg)]
        /\ Goto(t, "done")
        /\ UNCHANGED <<_num_inputs, _state, _volume, _available, wire, lock, running>>

\* A direct call returns to the host.
call_done(t) ==
    /\ running = t
    /\ task[t].pc = "return"
    /\ task[t].facade = "none"
    /\ Goto(t, "done")
    /\ UNCHANGED <<entity, wire, lock, running>>

\* The coroutine ends; the loop is free and the slot can be used again.
Complete(t) ==
    /\ running = t
    /\ task[t].pc = "done"
    /\ task' = [task EXCEPT ![t] = IdleTask]
    /\ running' = 0
    /\ UNCHANGED <<entity, wire, lock>>

\* ------------------------------------------------------ specifications

\* The steps of send_command and the end of a coroutine.
SendCommand(t) ==
    \/ Acquire(t)
    \/ Resume(t)
    \/ CreateSocket(t)
    \/ SendTo(t)
    \/ \E bytes \in Replies : RecvReply(t, bytes)
    \/ RecvTimeout(t)
    \/ RecvError(t)
    \/ Release(t)
    \/ ExceptHandler(t)
    \/ Finally(t)
    \/ MethodReturn(t)
    \/ Complete(t)

\* The host calls a power or source method of an entity.
PowerCall(t) ==
    \E z \in Zones :
       \/ async_turn_on(t, z)
       \/ async_turn_off(t, z)
       \/ \E source \in Labels : async_select_source(t, z, source)
       \/ \E input \in InputNumbers : async_select_source_to_output(t, z, input)
       \/ async_update(t, z)

\* The steps of the power and source methods.
PowerStep(t) ==
    \/ power_on_output(t)
    \/ power_off_output(t)
    \/ set_output_source(t)
    \/ turn_on_done(t)
    \/ turn_off_done(t)
    \/ select_source_done(t)

\* Entities' power and source methods, any number of times, in any order
\* and overlap the event loop allows.
Next == \E t \in Tasks : PowerCall(t) \/ PowerStep(t) \/ SendCommand(t)

Spec == Init /\ [][Next]_vars

\* The host turns an entity on or off.
OnOffCall(t) == \E z \in Zones : async_turn_on(t, z) \/ async_turn_off(t, z)

\* The steps of turning on and off.
OnOffStep(t) ==
    \/ power_on_output(t)
    \/ power_off_output(t)
    \/ turn_on_done(t)
    \/ turn_off_done(t)

\* Entities turned on and off only.
NextOnOff == \E t \in Tasks : OnOffCall(t) \/ OnOffStep(t) \/ SendCommand(t)

SpecOnOff == InitDefault /\ [][NextOnOff]_vars

\* The entities after some of them were turned on: those are on with the
\* default input 1 as their source.
InitSelect ==
    /\ _num_inputs = DEFAULT_NUM_INPUTS
    /\ _state \in [Zones -> {"off", "on"}]
    /\ _volume = [z \in Zones |-> 0]
    /\ _current_source = [z \in Zones |-> IF _state[z] = "on" THEN Some(1) ELSE None]
    /\ _available = [z \in Zones |-> TRUE]
    /\ _locked = FALSE
    /\ _waiters = <<>>
    /\ task = [t \in Tasks |-> IdleTask]
    /\ wire = None
    /\ running = 0

\* The host selects a source by its label or by its number.
SelectCall(t) ==
    \E z \in Zones :
       \/ \E source \in Labels : async_select_source(t, z, source)
       \/ \E input \in InputNumbers : async_select_source_to_output(t, z, input)

\* The steps of selecting a source.
SelectStep(t) == set_output_source(t) \/ select_source_done(t)

\* Sources selected on entities that are on or off.
NextSelect == \E t \in Tasks : SelectCall(t) \/ SelectStep(t) \/ SendCommand(t)

SpecSelect == InitSelect /\ [][NextSelect]_vars

\* The host sets the volume of an entity.
VolumeCall(t) ==
    \E z \in Zones : \E volume \in Volumes : async_set_volume_level(t, z, volume)

\* The steps of setting the volume.
VolumeStep(t) == set_output_volume(t) \/ set_volume_done(t)

\* Entities' volumes set.
NextVolume == \E t \in Tasks : VolumeCall(t) \/ VolumeStep(t) \/ SendCommand(t)

SpecVolume == InitDefault /\ [][NextVolume]_vars

\* Inputs of the entity methods when all of them are called together: the
\* volume 0.375, the labels within the default range of inputs, and the
\* labels without a number.
AnyVolumes == {Fraction(3, 8)}
AnyLabels ==
    {source \in Labels :
        LET word == SplitLast(source)
        IN  word.raised # NoExc
              \/ ParseInt(word.value).raised # NoExc
              \/ ParseInt(word.value).value \in 1..DEFAULT_NUM_INPUTS}

\* The host calls any of the entity methods that send a command.
AnyCall(t) ==
    \E z \in Zones :
       \/ async_turn_on(t, z)
       \/ async_turn_off(t, z)
       \/ \E volume \in AnyVolumes : async_set_volume_level(t, z, volume)
       \/ \E source \in AnyLabels : async_select_source(t, z, source)
       \/ \E input \in InputNumbers : async_select_source_to_output(t, z, input)

\* The steps of the entity methods.
AnyStep(t) == PowerStep(t) \/ VolumeStep(t)

\* All entity methods that send a command, in any order and overlap.
NextAll == \E t \in Tasks : AnyCall(t) \/ AnyStep(t) \/ SendCommand(t)

SpecAll == InitDefault /\ [][NextAll]_vars

\* The host calls a method of the client.
ClientCall(t) ==
    \E output \in CallOutputs :
       \/ \E i \in CallInputs : CallSetOutputSource(t, output, i)
       \/ \E i \in CallInputs : CallPowerOnOutput(t, output, i)
       \/ \E v \in CallVolumes : CallSetOutputVolume(t, output, v)
       \/ CallPowerOffOutput(t, output)

\* The steps of the client's methods.
ClientStep(t) ==
    \/ set_output_source(t)
    \/ power_on_output(t)
    \/ set_output_volume(t)
    \/ power_off_output(t)
    \/ call_done(t)

\* The client's methods called directly.
NextClient == \E t \in Tasks : ClientCall(t) \/ ClientStep(t) \/ SendCommand(t)

SpecClient == InitDefault /\ [][NextClient]_vars

\* The host calls a method of the client with arguments in the documented
\* ranges, one call at a time.
EncodeCall(t) ==
    /\ \A u \in Tasks : task[u].pc = "idle"
    /\ \E output \in DeviceOutputs :
          \/ \E i \in DeviceInputs : CallSetOutputSource(t, output, i)
          \/ \E i \in DeviceInputs : CallPowerOnOutput(t, output, i)
          \/ \E v \in VolumeLevels : CallSetOutputVolume(t, output, v)
          \/ CallPowerOffOutput(t, output)

\* The steps of send_command when no other call is in progress: nobody
\* waits for the lock.
SendCommandAlone(t) ==
    \/ Acquire(t)
    \/ CreateSocket(t)
    \/ SendTo(t)
    \/ \E bytes \in Replies : RecvReply(t, bytes)
    \/ RecvTimeout(t)
    \/ RecvError(t)
    \/ Release(t)
    \/ ExceptHandler(t)
    \/ Finally(t)
    \/ MethodReturn(t)
    \/ Complete(t)

\* The client's methods called one after the other over their whole
\* documented ranges.
NextEncode == \E t \in Tasks : EncodeCall(t) \/ ClientStep(t) \/ SendCommandAlone(t)

SpecEncode == InitDefault /\ [][NextEncode]_vars

\* Source selections the entity rejects: labels without a number and
\* numbers outside 1.._num_inputs.
RejectedLabels ==
    {source \in Labels :
        LET word == SplitLast(source)
        IN  word.raised # NoExc \/ ParseInt(word.value).raised # NoExc}
RejectedNumbers == {input \in InputNumbers : ~(1 <= input /\ input <= _num_inputs)}

\* The host polls an entity or asks for a source the entity rejects.
PollCall(t) ==
    \E z \in Zones :
       \/ async_update(t, z)
       \/ \E source \in RejectedLabels : async_select_source(t, z, source)
       \/ \E input \in RejectedNumbers : async_select_source_to_output(t, z, input)

\* Entities turned on and off, polled and asked for sources they reject.
NextPoll ==
    \E t \in Tasks : PollCall(t) \/ OnOffCall(t) \/ OnOffStep(t) \/ SendCommand(t)

SpecPoll == InitDefault /\ [][NextPoll]_vars

\* The host calls a query method of the client.
QueryCall(t) ==
    \E output \in CallOutputs :
       \/ get_output_source(t, output)
       \/ get_output_volume(t, output)
       \/ get_output_state(t, output)

\* Entities turned on and off while the client's query methods are called.
NextQuery ==
    \E t \in Tasks : QueryCall(t) \/ OnOffCall(t) \/ OnOffStep(t) \/ SendCommand(t)

SpecQuery == InitDefault /\ [][NextQuery]_vars

\* The host powers outputs on and off through the client.
LiveCall(t) ==
    \E output \in Zones :
       \/ \E i \in CallInputs : CallPowerOnOutput(t, output, i)
       \/ CallPowerOffOutput(t, output)

\* The steps of these methods.
LiveStep(t) == power_on_output(t) \/ power_off_output(t) \/ call_done(t)

NextLive == \E t \in Tasks : LiveCall(t) \/ LiveStep(t) \/ SendCommand(t)

\* What the event loop and the timer of wait_for guarantee to coroutine t:
\* a coroutine that can run is run, a waiter handed the lock is resumed, and
\* a receive ends after 2 seconds at the latest.  Replies and transport errors
\* may or may not come, and the host need not make another call.  The loop
\* runs its ready callbacks in the order they became ready, so a resumption
\* or a timeout that is due is not overtaken for ever by the other coroutines
\* the host starts: the steps are strongly fair.
Scheduled(t) ==
    \/ LiveStep(t)
    \/ Acquire(t)
    \/ Resume(t)
    \/ CreateSocket(t)
    \/ SendTo(t)
    \/ RecvTimeout(t)
    \/ Release(t)
    \/ ExceptHandler(t)
    \/ Finally(t)
    \/ MethodReturn(t)
    \/ Complete(t)

\* The client's power methods under a fair event loop.
SpecLive == InitDefault /\ [][NextLive]_vars /\ \A t \in Tasks : SF_vars(Scheduled(t))

\* ------------------------------------------------------ observations

\* volume_level of the entity of output z.
volume_level(z) == Fraction(_volume[z], 100)

\* Coroutines whose socket is open: their command is in flight.
InFlight == {t \in Tasks : task[t].sock = "open"}

\* Coroutine t has made the step that ends its method: what it returned and
\* what it left in the entity can be read.
Finished(t) == task[t].pc = "done"

Silence == "No response received (timeout)"
TransportError == "Error sending command"
Replied == "Command sent. Response"

\* The payload of a datagram: without the counter and the terminator.
Payload(datagram) ==
    SubSeq(datagram, Len(COUNTER_PREFIX) + 4, Len(datagram) - Len(COMMAND_TERMINATOR))

\* The datagram on the wire is a c4.amp.out command.
WireIsOut ==
    /\ wire # None
    /\ Len(Payload(wire[1])) >= Len(C4_AMP_OUT)
    /\ SubSeq(Payload(wire[1]), 1, Len(C4_AMP_OUT)) = C4_AMP_OUT

\* The last field of the datagram on the wire.
WireLastField == LastWord(Payload(wire[1]))

RouteOps == {"set_output_source", "power_on_output"}
SelectMethods == {"async_select_source", "async_select_source_to_output"}

\* Positions between taking the lock and releasing it.
LockRegion == {"locked", "sendto", "recv", "exit"}

\* The step being taken is a step of coroutine t.
StepOf(t) == running = t \/ (running = 0 /\ running' = t)

\* ------------------------------------------------------------- claims

\* C1: at most one command is in flight at a time, whatever calls of the
\* client's four command methods overlap (each entity method makes one such
\* call): no two coroutines have an open socket, and while a datagram awaits
\* its reply no other coroutine has got past the lock.
C1_OneCommandInFlight ==
    /\ Cardinality(InFlight) <= 1
    /\ \A t \in Tasks :
         task[t].pc = "recv" =>
           \A u \in Tasks \ {t} : task[u].pc \notin LockRegion /\ ~task[u].sent

\* C1 witness: a command of one zone awaits its reply while a command of
\* another zone waits for the lock.
C1_Witness ==
    \E t, u \in Tasks :
       /\ task[t].pc = "recv"
       /\ task[u].pc = "waiting"
       /\ task[t].output \in Zones
       /\ task[u].output \in Zones
       /\ task[t].output # task[u].output
       /\ task[t].op = "set_output_volume"
       /\ task[u].op = "power_on_output"

\* C2 (as claimed): a command to a configured output that got no reply
\* within the timeout is not reported as a failure.
C2_SilenceIsNotFailure ==
    \A t \in Tasks :
       (Finished(t) /\ task[t].output \in Zones /\ task[t].log = Silence) =>
         task[t].result # Some(FALSE)

\* C3: no route or power-on command with an input outside 1..15 reaches the
\* wire; a call with such an input returns False and has neither taken the
\* lock nor opened a socket nor sent anything.
C3_InputValidated ==
    /\ WireIsOut => WireLastField \in {<<"0", HexDigits[i + 1]>> : i \in 0..15}
    /\ \A t \in Tasks :
         (task[t].op \in RouteOps /\ task[t].arg \notin 1..15) =>
           /\ task[t].pc \in {"call", "return", "done"}
           /\ task[t].sock = "none"
           /\ ~task[t].sent
           /\ task[t].command = <<>>
           /\ task[t].pc # "call" => task[t].result = Some(FALSE)

\* C3 witness: power_on_output with input 16 has returned False while another
\* call holds the lock.
C3_Witness ==
    \E t, u \in Tasks :
       /\ Finished(t)
       /\ task[t].op = "power_on_output"
       /\ task[t].arg = 16
       /\ task[t].result = Some(FALSE)
       /\ task[u].pc = "recv"

\* C4 (as claimed): a volume whose integer level is outside 0..100 is
\* rejected before any I/O, and every tracked volume is within 0..100.
C4_VolumeValidated ==
    /\ \A z \in Zones : _volume[z] \in 0..100
    /\ \A t \in Tasks :
         (task[t].op = "set_output_volume" /\ task[t].arg \notin 0..100) =>
           task[t].sock = "none" /\ ~task[t].sent

\* C5 (as claimed): every tracked source is unknown or an input in
\* 1.._num_inputs.
C5_SourceInRange ==
    \A z \in Zones :
       _current_source[z] = None \/ _current_source[z][1] \in 1.._num_inputs

\* C6 (as claimed): every command sent carries an output in 1..NumOutputs.
C6_OutputValidated ==
    \A t \in Tasks : task[t].sent => task[t].output \in 1..NumOutputs

\* C7 (as claimed): when set_volume with an integer level v in 0..100, the
\* volume v/100, has completed, the entity's volume reads back as that level,
\* v/100, whether the device replied, kept silent or the transport raised.
C7_VolumeReadsBack ==
    \A t \in Tasks :
       (Finished(t) /\ task[t].facade = "async_set_volume_level"
          /\ \E v \in VolumeLevels : task[t].volume = Some(Fraction(v, 100))) =>
         volume_level(task[t].output) = task[t].volume[1]

\* C8: turn_off never raises and, when it completes, leaves the zone off,
\* whatever the transport did.
C8_TurnOffTotal ==
    \A t \in Tasks :
       task[t].facade = "async_turn_off" =>
         /\ task[t].pc # "raised"
         /\ task[t].exc # NoExc => task[t].pc \in {"exit", "except"}
         /\ Finished(t) => _state[task[t].output] = "off"

\* C8 witness: a turn_off that ended in a transport error after its send
\* has completed and left the zone off, and the next turn_off of the same
\* zone is about to take the lock.
C8_Witness ==
    \E t, u \in Tasks :
       /\ Finished(t)
       /\ task[t].facade = "async_turn_off"
       /\ task[t].log = TransportError
       /\ task[t].sent
       /\ _state[task[t].output] = "off"
       /\ task[u].facade = "async_turn_off"
       /\ task[u].output = task[t].output
       /\ task[u].pc = "woken"

\* The inputs that are configured and that the client accepts.
Selectable == (1.._num_inputs) \cap DeviceInputs

\* C9 (as claimed, where every source involved is a selectable input): when
\* turn_on completes, a route command for the output and the effective source
\* was issued, the zone is on and its tracked source is the effective source.
C9_TurnOnRoutesEffectiveSource ==
    \A t \in Tasks :
       (Finished(t) /\ task[t].facade = "async_turn_on"
          /\ task[t].arg \in Selectable
          /\ \A z \in Zones : _current_source[z] = None
                                \/ _current_source[z][1] \in Selectable) =>
         /\ task[t].command = RouteCommand(task[t].output, task[t].arg)
         /\ _state[task[t].output] = "on"
         /\ _current_source[task[t].output] = Some(task[t].arg)

\* C10: no step of select_source or select_source_by_number changes a
\* tracked power state or a tracked volume.
C10_SelectKeepsPower ==
    [][\A t \in Tasks :
         (StepOf(t) /\ (task[t].facade \in SelectMethods
                          \/ task'[t].facade \in SelectMethods))
           => UNCHANGED <<_state, _volume>>]_vars

\* C10 witness: select_source_by_number has completed on a zone that is off,
\* its command sent and the new source tracked, after select_source had
\* completed on a zone that is on, which tracks the source of the label.
C10_Witness ==
    \E t \in Tasks :
       /\ Finished(t)
       /\ task[t].facade = "async_select_source_to_output"
       /\ task[t].sent
       /\ _current_source[task[t].output] = Some(task[t].arg)
       /\ _state[task[t].output] = "off"
       /\ \E z \in Zones : _state[z] = "on" /\ _current_source[z] = Some(16)

\* The tracked state of the entity of output z.
Tracked(z) == <<_state[z], _volume[z], _current_source[z], _available[z]>>

\* C11: no entity method and no client method raises to the host (an
\* exception exists only inside send_command, between its raise and its except
\* clause), the lock is held only by a coroutine inside the locked block, and
\* a step of a coroutine changes the tracked state of its own output only.
C11_FailuresContained ==
    /\ [](\A t \in Tasks :
            /\ task[t].pc # "raised"
            /\ task[t].exc # NoExc => task[t].pc \in {"exit", "except"})
    /\ [](_locked => \E t \in Tasks : task[t].pc \in LockRegion)
    /\ [][\A t \in Tasks :
            StepOf(t) =>
              \A z \in Zones \ {task[t].output, task'[t].output} :
                 Tracked(z)' = Tracked(z)]_vars

\* C11 witness: turn_on of one zone has completed although its socket could
\* not be created, the zone of the coroutine that waited behind it is as it
\* was constructed, and that coroutine has been handed the free lock.
C11_Witness ==
    \E t, u \in Tasks :
       /\ Finished(t)
       /\ task[t].facade = "async_turn_on"
       /\ task[t].log = TransportError
       /\ task[t].sock = "none"
       /\ task[u].pc = "woken"
       /\ task[u].facade = "async_set_volume_level"
       /\ task[u].output # task[t].output
       /\ Tracked(task[u].output) = <<"off", 0, None, TRUE>>
       /\ ~_locked

\* An output number as two decimal digits.
TwoDigits(output) == <<HexDigits[(output \div 10) + 1], HexDigits[(output % 10) + 1]>>

\* Coroutine t has put its datagram on the wire and awaits the reply.
OnWire(t) == task[t].pc = "recv" /\ wire # None

\* C12: for every output 1..16 and level 0..100 the datagram of
\* set_output_volume carries 'c4.amp.chvol ', the output as two decimal
\* digits, a space and level + 160 in lowercase hexadecimal without padding:
\* d2 for 50, a0 for 0, 104 for 100.
C12_VolumePayload ==
    \A t \in Tasks :
       (task[t].op = "set_output_volume" /\ task[t].pc = "recv") =>
         /\ wire # None
         /\ Payload(wire[1]) =
              C4_AMP_CHVOL \o TwoDigits(task[t].output) \o <<" ">>
                \o Digits(task[t].arg + 160, 16)
         /\ task[t].arg = 50 => WireLastField = <<"d", "2">>
         /\ task[t].arg = 0 => WireLastField = <<"a", "0">>
         /\ task[t].arg = 100 => WireLastField = <<"1", "0", "4">>

\* C12 witness: set_output_volume(7, 100) has sent 'c4.amp.chvol 07 104'.
C12_Witness ==
    \E t \in Tasks :
       /\ OnWire(t)
       /\ task[t].op = "set_output_volume"
       /\ Payload(wire[1]) = C4_AMP_CHVOL \o <<"0", "7", " ", "1", "0", "4">>

\* C13: for every output 1..16 and input 1..15 the datagram of
\* set_output_source and of power_on_output carries 'c4.amp.out ', the output
\* as two decimal digits, ' 0' and the input as one lowercase hexadecimal
\* digit; that of power_off_output carries 'c4.amp.out <output> 00', which no
\* route of a valid input produces.
C13_RoutePayload ==
    \A t \in Tasks :
       /\ (task[t].op \in RouteOps /\ task[t].pc = "recv") =>
            /\ wire # None
            /\ Payload(wire[1]) =
                 C4_AMP_OUT \o TwoDigits(task[t].output) \o <<" ", "0">>
                   \o <<HexDigits[task[t].arg + 1]>>
            /\ (task[t].output = 3 /\ task[t].arg = 10) =>
                 Payload(wire[1]) = C4_AMP_OUT \o <<"0", "3", " ", "0", "a">>
            /\ (task[t].output = 16 /\ task[t].arg = 1) =>
                 Payload(wire[1]) = C4_AMP_OUT \o <<"1", "6", " ", "0", "1">>
       /\ (task[t].op = "power_off_output" /\ task[t].pc = "recv") =>
            /\ wire # None
            /\ Payload(wire[1]) =
                 C4_AMP_OUT \o TwoDigits(task[t].output) \o <<" ", "0", "0">>
            /\ \A o \in DeviceOutputs : \A i \in DeviceInputs :
                  RouteCommand(o, i) # Payload(wire[1])

\* C13 witness: power_on_output(3, 10) has sent 'c4.amp.out 03 0a'.
C13_Witness ==
    \E t \in Tasks :
       /\ OnWire(t)
       /\ task[t].op = "power_on_output"
       /\ Payload(wire[1]) = C4_AMP_OUT \o <<"0", "3", " ", "0", "a">>

QueryOps == {"get_output_source", "get_output_volume", "get_output_state"}

\* C14: get_output_source, get_output_volume and get_output_state return
\* None for every output without raising, without a socket or a datagram, and
\* their step changes no tracked state, nothing on the wire and not the lock.
C14_QueriesUnsupported ==
    /\ [](\A t \in Tasks :
            task[t].op \in QueryOps =>
              /\ Finished(t)
              /\ task[t].result = Some(None)
              /\ task[t].exc = NoExc
              /\ task[t].sock = "none"
              /\ ~task[t].sent)
    /\ [][\A t \in Tasks :
            (task[t].op \in QueryOps \/ task'[t].op \in QueryOps) =>
              UNCHANGED <<entity, wire, lock>>]_vars

\* C14 witness: get_output_state has returned None for an output whose
\* entity is on, while another coroutine's datagram awaits its reply.
C14_Witness ==
    \E t, u \in Tasks :
       /\ Finished(t)
       /\ task[t].op = "get_output_state"
       /\ task[t].result = Some(None)
       /\ task[t].output \in Zones
       /\ _state[task[t].output] = "on"
       /\ task[u].pc = "recv"
       /\ wire # None

\* The available property of the entity of output z.
available(z) == _available[z]

\* C15: every entity reports available in every reachable state, whatever
\* timeouts, transport errors, rejected operations and update polls occurred.
C15_AlwaysAvailable == \A z \in Zones : available(z)

\* C15 witness: turn_off got no reply, the client reported failure, and the
\* entity is available.
C15_Witness ==
    \E t \in Tasks :
       /\ Finished(t)
       /\ task[t].facade = "async_turn_off"
       /\ task[t].log = Silence
       /\ task[t].result = Some(FALSE)
       /\ available(task[t].output)

\* Coroutine t is the only one in progress.
Alone(t) == \A u \in Tasks \ {t} : task[u].pc = "idle"

\* C16 (as claimed, where every tracked source is a selectable input): when
\* the last operation in progress completes and it put a route or power-on
\* datagram on the wire (the most recent one, since the lock was its own until
\* it returned), the tracked source of its output is the input that datagram
\* carried.
C16_TrackedSourceIsLastRouted ==
    \A t \in Tasks :
       (Finished(t) /\ Alone(t) /\ task[t].sent /\ task[t].op \in RouteOps
          /\ \A z \in Zones :
                _current_source[z] = None \/ _current_source[z][1] \in Selectable) =>
         _current_source[task[t].output] = Some(task[t].arg)

Rejected == "Input source must be between 1 and 15"

\* C17 (as claimed): when the client rejected the input of an entity's
\* operation, so that no socket was opened and nothing was sent, the step that
\* ends the operation leaves the tracked power, volume and source of its
\* output as they were.
C17_RejectedLeavesTracked ==
    [][\A t \in Tasks :
         (/\ running = t
          /\ task[t].pc = "return"
          /\ task[t].facade # "none"
          /\ task[t].log = Rejected
          /\ task[t].sock = "none"
          /\ ~task[t].sent
          /\ task'[t].pc = "done")
           => Tracked(task[t].output)' = Tracked(task[t].output)]_vars

\* C18 (as claimed): the lock is held in every state in which a command's
\* socket is open.
C18_ClosedBeforeRelease == \A t \in Tasks : task[t].sock = "open" => _locked

\* Positions after send_command has returned or raised.
AfterSendCommand == {"returned", "return", "done", "raised"}

\* C19: at most one socket is open at any time, no socket is open once
\* send_command has returned, a socket is created only by a coroutine that
\* holds the lock and has none yet, and a closed socket is never used again.
C19_SocketPerCommand ==
    /\ [](Cardinality(InFlight) <= 1)
    /\ [](\A t \in Tasks :
            /\ task[t].pc \in AfterSendCommand => task[t].sock # "open"
            /\ task[t].sent => task[t].sock # "none")
    /\ [][\A t \in Tasks :
            /\ (task[t].sock # "open" /\ task'[t].sock = "open") =>
                 task[t].sock = "none" /\ task[t].pc = "locked"
            /\ (task[t].sock = "closed" /\ task'[t].sent) => task[t].sent]_vars

\* C19 witness: a command whose receive raised has completed with its socket
\* closed, the next coroutine is about to take the lock, and no socket is
\* open.
C19_Witness ==
    \E t, u \in Tasks :
       /\ Finished(t)
       /\ task[t].sent
       /\ task[t].log = TransportError
       /\ task[t].sock = "closed"
       /\ task[u].pc = "woken"
       /\ InFlight = {}

\* Positions inside send_command up to the release of the lock.
InSendCommand == {"send_command", "waiting", "woken"} \cup LockRegion

\* C20: under a fair event loop every coroutine that entered send_command,
\* whether it holds the lock or waits for it, eventually returns to its
\* caller; a held lock is eventually released; and when a coroutine has left
\* the locked block, by return or by exception, the lock is free.
C20_EveryCommandCompletes ==
    /\ \A t \in Tasks : (task[t].pc \in InSendCommand) ~> Finished(t)
    /\ _locked ~> ~_locked
    /\ [](\A t \in Tasks :
            task[t].pc \in {"except", "finally", "returned", "raised"} => ~_locked)

\* C20 witness: a command failed in its send and has left the locked block
\* with the exception pending, the lock is free and the coroutine that waited
\* for it has been woken.
C20_Witness ==
    \E t, u \in Tasks :
       /\ task[t].pc = "except"
       /\ task[t].exc = "OSError"
       /\ task[t].sock = "open"
       /\ ~_locked
       /\ task[u].pc = "woken"
       /\ task[u].output # task[t].output

====
